---- MODULE Spec2Model ----
(***************************************************************************)
(* Model of the job recommendation core:                                   *)
(*   backend/services/recommendation.py   (RecommendationService)          *)
(*   backend/services/embedding_service.py (EmbeddingService)              *)
(*                                                                         *)
(* Conventions.                                                            *)
(*  - A Python str is a sequence of one-character strings; fixed literal   *)
(*    fragments of an f-string are kept as one token each.                 *)
(*  - An Optional[T] is a sequence of length at most one: None is <<>>     *)
(*    and a present value v is <<v>>.                                      *)
(*  - A float is an exact rational <<num, den>> in lowest terms, den > 0.  *)
(*    round(x, 2) yields an integer number of hundredths, and              *)
(*    format(x, ".0f") an integer; both round half to even.                *)
(***************************************************************************)
EXTENDS Integers, Sequences, FiniteSets, TLC

VARIABLES
    pc,              \* position of the running call
    user_profile,    \* argument: UserProfile
    jobs,            \* argument: List[JobListing]  (rank_jobs, _apply_filters)
    filters,         \* argument: JobSearchFilters or None
    filtered_jobs,   \* rank_jobs local / _apply_filters result
    user_embedding,  \* rank_jobs local / _calculate_match argument
    job_embeddings,  \* rank_jobs local
    result,          \* value returned by the call (<<>> before it returns)
    cache,           \* EmbeddingService.cache: text -> vector
    job,             \* _calculate_match argument: JobListing
    job_embedding,   \* _calculate_match argument
    title_score,     \* _calculate_match local
    skills_result,   \* _calculate_match local: (score, matched, missing)
    experience_score, \* _calculate_match local
    embed_requests,  \* texts rank_jobs handed to generate_embedding, in call order
    tasks,           \* generate_embedding coroutines: text, position, returned value
    embed_log,       \* answers of genai.embed_content and clear_cache calls, in order
    db,              \* tables user_profiles and saved_jobs
    requests         \* API requests: arguments, position, loaded row, response

vars == <<pc, user_profile, jobs, filters, filtered_jobs, user_embedding,
          job_embeddings, result, cache, job, job_embedding, title_score,
          skills_result, experience_score, embed_requests, tasks, embed_log,
          db, requests>>

\* state of the embedding service run and of the API, which the
\* recommendation calls leave alone
apiVars == <<tasks, embed_log, db, requests>>
serviceVars == <<embed_requests, tasks, embed_log, db, requests>>

None == <<>>
Some(v) == <<v>>
IsNone(o) == o = <<>>
Val(o) == o[1]

-----------------------------------------------------------------------------
(* Bounds of the model.                                                    *)

MaxJobs == 4
MaxFilterJobs == 3
MaxTitles == 2
MaxSkills == 2
MaxExperience == 3
MaxCalls == 3
MaxClears == 1
MaxUpdates == 2
MaxSaves == 3

-----------------------------------------------------------------------------
(* Python str operations.                                                  *)

LowerChar(c) ==
    CASE c = "A" -> "a"
      [] c = "B" -> "b"
      [] c = "C" -> "c"
      [] c = "P" -> "p"
      [] c = "Q" -> "q"
      [] c = "R" -> "r"
      [] c = "X" -> "x"
      [] OTHER -> c

Lower(s) == [i \in DOMAIN s |-> LowerChar(s[i])]

\* x in y, for two str
IsSubstring(x, y) ==
    \E i \in 0..(Len(y) - Len(x)) : SubSeq(y, i + 1, i + Len(x)) = x

\* set(s.split()): the maximal runs of non-whitespace characters
SplitWords(s) ==
    { SubSeq(s, i, j) : <<i, j>> \in
        { p \in (DOMAIN s) \X (DOMAIN s) :
            /\ p[1] <= p[2]
            /\ \A k \in p[1]..p[2] : s[k] # " "
            /\ (p[1] = 1 \/ s[p[1] - 1] = " ")
            /\ (p[2] = Len(s) \/ s[p[2] + 1] = " ") } }

\* [x for x in seq if Test(x)]
RECURSIVE SelectSeqIdx(_, _)
SelectSeqIdx(seq, keep) ==
    IF seq = <<>> THEN <<>>
    ELSE LET rest == SelectSeqIdx(Tail(seq), {i - 1 : i \in keep \ {1}})
         IN IF 1 \in keep THEN <<Head(seq)>> \o rest ELSE rest

Range(seq) == { seq[i] : i \in DOMAIN seq }

\* seq[:n]
Take(seq, n) == SubSeq(seq, 1, IF Len(seq) < n THEN Len(seq) ELSE n)

\* sep.join(items)
RECURSIVE Join(_, _)
Join(sep, items) ==
    IF items = <<>> THEN <<>>
    ELSE IF Len(items) = 1 THEN items[1]
    ELSE items[1] \o sep \o Join(sep, Tail(items))

-----------------------------------------------------------------------------
(* Exact arithmetic standing for Python floats.                            *)

Abs(n) == IF n < 0 THEN -n ELSE n

RECURSIVE GCD(_, _)
GCD(a, b) == IF b = 0 THEN a ELSE GCD(b, a % b)

\* the rational n/d (d # 0) in lowest terms with a positive denominator
Rat(n, d) ==
    LET g == GCD(Abs(n), Abs(d))
        s == IF d < 0 THEN -1 ELSE 1
    IN <<(s * n) \div g, (s * d) \div g>>

RatInt(n) == <<n, 1>>
RatAdd(a, b) == Rat(a[1] * b[2] + b[1] * a[2], a[2] * b[2])
RatMul(a, b) == Rat(a[1] * b[1], a[2] * b[2])
RatDiv(a, b) == Rat(a[1] * b[2], a[2] * b[1])
RatLeq(a, b) == a[1] * b[2] <= b[1] * a[2]
RatLt(a, b) == a[1] * b[2] < b[1] * a[2]
RatMin(a, b) == IF RatLeq(a, b) THEN a ELSE b

\* n/d rounded to the nearest integer, ties to the even one (d > 0)
RoundHalfEven(n, d) ==
    LET q == n \div d
        r == n % d
    IN IF 2 * r < d THEN q
       ELSE IF 2 * r > d THEN q + 1
       ELSE IF q % 2 = 0 THEN q ELSE q + 1

\* round(x, 2), as a number of hundredths
Round2(x) == RoundHalfEven(100 * x[1], x[2])

\* f"{x:.0f}"
Format0f(x) == RoundHalfEven(x[1], x[2])

\* exact square root of a perfect square (norms of the model's vectors)
ISqrt(n) == CHOOSE r \in 0..n : r * r = n

-----------------------------------------------------------------------------
(* RecommendationService: sub-scores.                                      *)

\* weights with the embedding weight mistyped, so that they sum to 1.05
weightsMistyped ==
    [ title      |-> Rat(25, 100),
      skills     |-> Rat(40, 100),
      experience |-> Rat(15, 100),
      embedding  |-> Rat(25, 100) ]

\* self.weights
weights ==
    [ title      |-> Rat(25, 100),
      skills     |-> Rat(40, 100),
      experience |-> Rat(15, 100),
      embedding  |-> Rat(20, 100) ]

\* one iteration of "for desired_title in user_profile.desired_job_titles";
\* <<>> when the iteration returns nothing and the loop goes on
TitleMatchOne(desired_title, job_title_lower) ==
    LET desired_lower == Lower(desired_title)
        desired_words == SplitWords(desired_lower)
        job_words     == SplitWords(job_title_lower)
        overlap       == desired_words \cap job_words
        larger        == IF Cardinality(desired_words) >= Cardinality(job_words)
                         THEN Cardinality(desired_words)
                         ELSE Cardinality(job_words)
    IN IF desired_lower = job_title_lower THEN Some(RatInt(100))
       ELSE IF \/ IsSubstring(desired_lower, job_title_lower)
               \/ IsSubstring(job_title_lower, desired_lower)
            THEN Some(RatInt(80))
       ELSE IF overlap # {}
            THEN Some(RatMul(RatInt(60), Rat(Cardinality(overlap), larger)))
       ELSE None

\* the loop of _calculate_title_match going over every desired title and
\* keeping the best score
RECURSIVE TitleMatchLoopBest(_, _)
TitleMatchLoopBest(desired, job_title_lower) ==
    IF desired = <<>> THEN RatInt(20)
    ELSE LET r == TitleMatchOne(Head(desired), job_title_lower)
             rest == TitleMatchLoopBest(Tail(desired), job_title_lower)
         IN IF ~IsNone(r) /\ RatLeq(rest, Val(r)) THEN Val(r) ELSE rest

\* lines 204-222: the loop returns at the first desired title that matches
RECURSIVE TitleMatchLoop(_, _)
TitleMatchLoop(desired, job_title_lower) ==
    IF desired = <<>> THEN RatInt(20)
    ELSE LET r == TitleMatchOne(Head(desired), job_title_lower)
         IN IF ~IsNone(r) THEN Val(r)
            ELSE TitleMatchLoop(Tail(desired), job_title_lower)

\* RecommendationService._calculate_title_match
CalculateTitleMatch(profile, j) ==
    IF profile.desired_job_titles = <<>> THEN RatInt(50)
    ELSE TitleMatchLoop(profile.desired_job_titles, Lower(j.title))

\* _calculate_skills_match with missing computed as user - job
CalculateSkillsMatchSwapped(profile, j) ==
    IF j.skills = <<>>
    THEN [score |-> RatInt(50), matched_skills |-> <<>>, missing_skills |-> <<>>]
    ELSE
      LET user_skills_lower == { Lower(s) : s \in Range(profile.skills) }
          job_skills_lower  == { Lower(s) : s \in Range(j.skills) }
          matched == user_skills_lower \cap job_skills_lower
          missing == user_skills_lower \ job_skills_lower
      IN [ score |->
             RatMul(Rat(Cardinality(matched), Cardinality(job_skills_lower)),
                    RatInt(100)),
           matched_skills |->
             SelectSeqIdx(j.skills,
                 { i \in DOMAIN j.skills : Lower(j.skills[i]) \in matched }),
           missing_skills |->
             SelectSeqIdx(j.skills,
                 { i \in DOMAIN j.skills : Lower(j.skills[i]) \in missing }) ]

\* _calculate_skills_match with the ratio taken over len(job.skills)
CalculateSkillsMatchNoDedup(profile, j) ==
    IF j.skills = <<>>
    THEN [score |-> RatInt(50), matched_skills |-> <<>>, missing_skills |-> <<>>]
    ELSE
      LET user_skills_lower == { Lower(s) : s \in Range(profile.skills) }
          job_skills_lower  == { Lower(s) : s \in Range(j.skills) }
          matched == user_skills_lower \cap job_skills_lower
          missing == job_skills_lower \ user_skills_lower
      IN [ score |->
             RatMul(Rat(Cardinality(matched), Len(j.skills)), RatInt(100)),
           matched_skills |->
             SelectSeqIdx(j.skills,
                 { i \in DOMAIN j.skills : Lower(j.skills[i]) \in matched }),
           missing_skills |->
             SelectSeqIdx(j.skills,
                 { i \in DOMAIN j.skills : Lower(j.skills[i]) \in missing }) ]

\* _calculate_skills_match with matched_skills read off the user's list
CalculateSkillsMatchUserCase(profile, j) ==
    IF j.skills = <<>>
    THEN [score |-> RatInt(50), matched_skills |-> <<>>, missing_skills |-> <<>>]
    ELSE
      LET user_skills_lower == { Lower(s) : s \in Range(profile.skills) }
          job_skills_lower  == { Lower(s) : s \in Range(j.skills) }
          matched == user_skills_lower \cap job_skills_lower
          missing == job_skills_lower \ user_skills_lower
      IN [ score |->
             RatMul(Rat(Cardinality(matched), Cardinality(job_skills_lower)),
                    RatInt(100)),
           matched_skills |->
             SelectSeqIdx(profile.skills,
                 { i \in DOMAIN profile.skills : Lower(profile.skills[i]) \in matched }),
           missing_skills |->
             SelectSeqIdx(j.skills,
                 { i \in DOMAIN j.skills : Lower(j.skills[i]) \in missing }) ]

\* RecommendationService._calculate_skills_match
CalculateSkillsMatch(profile, j) ==
    IF j.skills = <<>>
    THEN [score |-> RatInt(50), matched_skills |-> <<>>, missing_skills |-> <<>>]
    ELSE
      LET user_skills_lower == { Lower(s) : s \in Range(profile.skills) }
          job_skills_lower  == { Lower(s) : s \in Range(j.skills) }
          matched == user_skills_lower \cap job_skills_lower
          missing == job_skills_lower \ user_skills_lower
      IN [ score |->
             IF Cardinality(job_skills_lower) = 0 THEN RatInt(50)
             ELSE RatMul(Rat(Cardinality(matched), Cardinality(job_skills_lower)),
                         RatInt(100)),
           matched_skills |->
             SelectSeqIdx(j.skills,
                 { i \in DOMAIN j.skills : Lower(j.skills[i]) \in matched }),
           missing_skills |->
             SelectSeqIdx(j.skills,
                 { i \in DOMAIN j.skills : Lower(j.skills[i]) \in missing }) ]

\* the bonus loop of _calculate_experience_match: "bonus", "none" or "raise"
\* (exp.title.lower() on a title that is None is an AttributeError)
RECURSIVE ExperienceBonusLoop(_, _)
ExperienceBonusLoop(experience, job_keywords) ==
    IF experience = <<>> THEN "none"
    ELSE LET exp == Head(experience)
         IN IF IsNone(exp.title) THEN "raise"
            ELSE IF job_keywords \cap SplitWords(Lower(Val(exp.title))) # {}
                 THEN "bonus"
            ELSE ExperienceBonusLoop(Tail(experience), job_keywords)

\* RecommendationService._calculate_experience_match raises
ExperienceMatchRaises(profile, j) ==
    /\ profile.experience # <<>>
    /\ ExperienceBonusLoop(profile.experience, SplitWords(Lower(j.title))) = "raise"

\* RecommendationService._calculate_experience_match (when it returns)
CalculateExperienceMatch(profile, j) ==
    IF profile.experience = <<>> THEN RatInt(30)
    ELSE
      LET experience_count == Len(profile.experience)
          counted == IF experience_count >= 3 THEN 50 + 30
                     ELSE IF experience_count >= 2 THEN 50 + 20
                     ELSE 50 + 10
          bonus == ExperienceBonusLoop(profile.experience,
                                       SplitWords(Lower(j.title)))
          base_score == IF bonus = "bonus" THEN counted + 10 ELSE counted
      IN RatMin(RatInt(base_score), RatInt(100))

Dot(u, v) == u[1] * v[1] + u[2] * v[2]
\* the norm by which sklearn's cosine_similarity divides: a zero norm is taken as 1
Norm(u) == IF Dot(u, u) = 0 THEN 1 ELSE ISqrt(Dot(u, u))

\* _calculate_embedding_similarity without the remap from [-1,1] to [0,1]
CalculateEmbeddingSimilarityNoRemap(u, v) ==
    RatMul(Rat(Dot(u, v), Norm(u) * Norm(v)), RatInt(100))

\* _calculate_embedding_similarity without the division by 2
CalculateEmbeddingSimilarityNoHalf(u, v) ==
    RatMul(RatAdd(Rat(Dot(u, v), Norm(u) * Norm(v)), RatInt(1)), RatInt(100))

\* RecommendationService._calculate_embedding_similarity
CalculateEmbeddingSimilarity(u, v) ==
    LET similarity == Rat(Dot(u, v), Norm(u) * Norm(v))
    IN RatMul(RatDiv(RatAdd(similarity, RatInt(1)), RatInt(2)), RatInt(100))

-----------------------------------------------------------------------------
(* RecommendationService: explanation and blend.                           *)

\* the quality label with every threshold ten points lower
QualityLenient(overall_score) ==
    IF RatLeq(RatInt(70), overall_score) THEN "Excellent"
    ELSE IF RatLeq(RatInt(50), overall_score) THEN "Good"
    ELSE IF RatLeq(RatInt(30), overall_score) THEN "Fair"
    ELSE "Limited"

\* lines 333-340: the quality label
Quality(overall_score) ==
    IF RatLeq(RatInt(80), overall_score) THEN "Excellent"
    ELSE IF RatLeq(RatInt(60), overall_score) THEN "Good"
    ELSE IF RatLeq(RatInt(40), overall_score) THEN "Fair"
    ELSE "Limited"

\* the semantic sentence with the remark given from a score of 50 on
SemanticPartFrom50(embedding_available, embedding_score) ==
    IF embedding_available
    THEN IF RatLeq(RatInt(50), embedding_score)
         THEN << <<"Strong semantic match between your profile and job description.">> >>
         ELSE <<>>
    ELSE << <<"Deep AI Match (Embeddings) currently unavailable, falling back to basic matching.">> >>

\* lines 362-366: the sentences about the embedding
SemanticPart(embedding_available, embedding_score) ==
    IF embedding_available
    THEN IF RatLeq(RatInt(70), embedding_score)
         THEN << <<"Strong semantic match between your profile and job description.">> >>
         ELSE <<>>
    ELSE << <<"Deep AI Match (Embeddings) currently unavailable, falling back to basic matching.">> >>

\* RecommendationService._generate_explanation
GenerateExplanation(overall_score, t_score, s_score, e_score, embedding_score, matched_skills, missing_skills, embedding_available) ==
    LET quality == Quality(overall_score)
        lead == << <<quality, " match (", ToString(Format0f(overall_score)), "%).">> >>
        title_part ==
            IF RatLeq(RatInt(70), t_score)
            THEN << <<"Job title aligns well with your desired roles.">> >>
            ELSE IF RatLeq(RatInt(40), t_score)
            THEN << <<"Job title partially matches your interests.">> >>
            ELSE << <<"Job title differs from your stated preferences.">> >>
        have_part ==
            IF matched_skills # <<>>
            THEN << <<"You have ", ToString(Len(matched_skills)),
                      " of the required skills.">> >>
            ELSE <<>>
        missing_part ==
            IF missing_skills # <<>> /\ Len(missing_skills) <= 3
            THEN << <<"Consider developing: ">>
                    \o Join(<<", ">>, Take(missing_skills, 3)) \o <<".">> >>
            ELSE IF missing_skills # <<>>
            THEN << <<"You may need to develop ", ToString(Len(missing_skills)),
                      " additional skills.">> >>
            ELSE <<>>
        semantic_part == SemanticPart(embedding_available, embedding_score)
        parts == lead \o title_part \o have_part \o missing_part \o semantic_part
    IN [ overall_score    |-> Round2(overall_score),
         title_score      |-> Round2(t_score),
         skills_score     |-> Round2(s_score),
         experience_score |-> Round2(e_score),
         embedding_score  |-> Round2(embedding_score),
         matched_skills   |-> matched_skills,
         missing_skills   |-> missing_skills,
         explanation      |-> Join(<<" ">>, parts) ]

\* the overall score without the renormalisation of the fallback branch
OverallScoreNoRenorm(t_score, s_score, e_score, u_emb, j_emb) ==
    LET embedding_available == ~IsNone(u_emb) /\ ~IsNone(j_emb)
        three == RatAdd(RatAdd(RatMul(weights.title, t_score),
                               RatMul(weights.skills, s_score)),
                        RatMul(weights.experience, e_score))
    IN IF embedding_available
       THEN RatAdd(three,
                   RatMul(weights.embedding,
                          CalculateEmbeddingSimilarity(Val(u_emb), Val(j_emb))))
       ELSE three

\* RecommendationService._calculate_match, lines 149-170: the overall score
OverallScore(t_score, s_score, e_score, u_emb, j_emb) ==
    LET embedding_available == ~IsNone(u_emb) /\ ~IsNone(j_emb)
        three == RatAdd(RatAdd(RatMul(weights.title, t_score),
                               RatMul(weights.skills, s_score)),
                        RatMul(weights.experience, e_score))
    IN IF embedding_available
       THEN RatAdd(three,
                   RatMul(weights.embedding,
                          CalculateEmbeddingSimilarity(Val(u_emb), Val(j_emb))))
       ELSE RatDiv(three,
                   RatAdd(RatAdd(weights.title, weights.skills), weights.experience))

\* lines 149-190 with match_score rounded to a whole percent
BlendMatchWholePercent(j, t_score, s_res, e_score, u_emb, j_emb) ==
    LET embedding_available == ~IsNone(u_emb) /\ ~IsNone(j_emb)
        embedding_score ==
            IF embedding_available
            THEN CalculateEmbeddingSimilarity(Val(u_emb), Val(j_emb))
            ELSE RatInt(0)
        overall_score == OverallScore(t_score, s_res.score, e_score, u_emb, j_emb)
    IN [ job         |-> j,
         match_score |-> 100 * Format0f(overall_score),
         explanation |->
             GenerateExplanation(overall_score, t_score, s_res.score, e_score,
                                 embedding_score, s_res.matched_skills,
                                 s_res.missing_skills, embedding_available) ]

\* RecommendationService._calculate_match, lines 149-190, given the three
\* sub-scores computed by lines 138-147
BlendMatch(j, t_score, s_res, e_score, u_emb, j_emb) ==
    LET embedding_available == ~IsNone(u_emb) /\ ~IsNone(j_emb)
        embedding_score ==
            IF embedding_available
            THEN CalculateEmbeddingSimilarity(Val(u_emb), Val(j_emb))
            ELSE RatInt(0)
        overall_score == OverallScore(t_score, s_res.score, e_score, u_emb, j_emb)
    IN [ job         |-> j,
         match_score |-> Round2(overall_score),
         explanation |->
             GenerateExplanation(overall_score, t_score, s_res.score, e_score,
                                 embedding_score, s_res.matched_skills,
                                 s_res.missing_skills, embedding_available) ]

\* RecommendationService._calculate_match (when it returns)
CalculateMatch(profile, j, u_emb, j_emb) ==
    BlendMatch(j, CalculateTitleMatch(profile, j), CalculateSkillsMatch(profile, j),
               CalculateExperienceMatch(profile, j), u_emb, j_emb)

\* RecommendationService._calculate_match raises
CalculateMatchRaises(profile, j) == ExperienceMatchRaises(profile, j)

-----------------------------------------------------------------------------
(* RecommendationService: filters and ranking order.                       *)

\* recommendation.py lines 95-99
FilterLocation(js, f) ==
    IF ~IsNone(f.location) /\ Val(f.location) # <<>>
    THEN LET Keep(j) == IsSubstring(Lower(Val(f.location)), Lower(j.location))
         IN SelectSeq(js, Keep)
    ELSE js

\* FilterRemote with the remote_only flag not honoured
FilterRemoteOff(js, f) == js

\* recommendation.py lines 102-103
FilterRemote(js, f) ==
    IF f.remote_only
    THEN LET Keep(j) == j.remote IN SelectSeq(js, Keep)
    ELSE js

\* recommendation.py lines 106-110; "job.salary_max and ..." is false for a
\* salary_max that is None or 0
FilterMinSalary(js, f) ==
    IF ~IsNone(f.min_salary)
    THEN LET Keep(j) == /\ ~IsNone(j.salary_max)
                        /\ Val(j.salary_max) # 0
                        /\ Val(j.salary_max) >= Val(f.min_salary)
         IN SelectSeq(js, Keep)
    ELSE js

\* recommendation.py lines 112-116; "job.salary_min and ..." is false for a
\* salary_min that is None or 0
FilterMaxSalary(js, f) ==
    IF ~IsNone(f.max_salary)
    THEN LET Keep(j) == /\ ~IsNone(j.salary_min)
                        /\ Val(j.salary_min) # 0
                        /\ Val(j.salary_min) <= Val(f.max_salary)
         IN SelectSeq(js, Keep)
    ELSE js

\* recommendation.py lines 119-124
FilterKeywords(js, f) ==
    IF ~IsNone(f.keywords) /\ Val(f.keywords) # <<>>
    THEN LET keywords_lower == Lower(Val(f.keywords))
             Keep(j) == \/ IsSubstring(keywords_lower, Lower(j.title))
                        \/ IsSubstring(keywords_lower, Lower(j.description))
         IN SelectSeq(js, Keep)
    ELSE js

\* RecommendationService._apply_filters; fs is Optional[JobSearchFilters]
ApplyFilters(js, fs) ==
    IF IsNone(fs) THEN js
    ELSE LET f == Val(fs)
         IN FilterKeywords(
              FilterMaxSalary(
                FilterMinSalary(
                  FilterRemote(
                    FilterLocation(js, f), f), f), f), f)

\* InsertDesc with equal keys put in front: a sort that is not stable
InsertDescUnstable(sorted, m) ==
    LET before == { i \in DOMAIN sorted : sorted[i].match_score > m.match_score }
        k == Cardinality(before)
    IN SubSeq(sorted, 1, k) \o <<m>> \o SubSeq(sorted, k + 1, Len(sorted))

\* one step of a stable descending sort: m goes after every element whose
\* key is >= its own
InsertDesc(sorted, m) ==
    LET before == { i \in DOMAIN sorted : sorted[i].match_score >= m.match_score }
        k == Cardinality(before)
    IN SubSeq(sorted, 1, k) \o <<m>> \o SubSeq(sorted, k + 1, Len(sorted))

\* job_matches.sort(key=lambda x: x.match_score, reverse=True)
RECURSIVE SortByScoreDesc(_)
SortByScoreDesc(ms) ==
    IF ms = <<>> THEN <<>>
    ELSE InsertDesc(SortByScoreDesc(SubSeq(ms, 1, Len(ms) - 1)), ms[Len(ms)])

-----------------------------------------------------------------------------
(* EmbeddingService.                                                       *)

\* str(x) of an Optional[str] inside an f-string
StrOpt(o) == IF IsNone(o) THEN <<"None">> ELSE Val(o)

\* the text of one experience entry, embedding_service.py lines 119-122
ExpText(exp) ==
    StrOpt(exp.title) \o <<" at ">> \o StrOpt(exp.company)
      \o (IF ~IsNone(exp.description) /\ Val(exp.description) # <<>>
          THEN <<": ">> \o Val(exp.description) ELSE <<>>)

\* EmbeddingService.embed_user_profile: the text handed to generate_embedding
EmbedUserProfileText(profile) ==
    LET parts ==
          (IF profile.desired_job_titles # <<>>
           THEN << <<"Desired roles: ">> \o Join(<<", ">>, profile.desired_job_titles) >>
           ELSE <<>>)
          \o (IF profile.skills # <<>>
              THEN << <<"Skills: ">> \o Join(<<", ">>, profile.skills) >>
              ELSE <<>>)
          \o (IF ~IsNone(profile.summary) /\ Val(profile.summary) # <<>>
              THEN << <<"Summary: ">> \o Val(profile.summary) >>
              ELSE <<>>)
          \o (IF profile.experience # <<>>
              THEN << <<"Experience: ">>
                      \o Join(<<" ">>, [i \in DOMAIN profile.experience |->
                                           ExpText(profile.experience[i])]) >>
              ELSE <<>>)
    IN Join(<<". ">>, parts)

\* EmbeddingService.embed_job_listing: the text handed to generate_embedding
EmbedJobListingText(j) ==
    LET parts ==
          << <<"Title: ">> \o j.title,
             <<"Company: ">> \o j.company,
             <<"Description: ">> \o j.description >>
          \o (IF j.skills # <<>>
              THEN << <<"Required skills: ">> \o Join(<<", ">>, j.skills) >>
              ELSE <<>>)
    IN Join(<<". ">>, parts)

\* vectors the embedding model may answer with
Vecs == { <<1, 0>>, <<0, 1>>, <<-1, 0>>, <<3, 4>>, <<0, 0>> }
RankVecs == { <<1, 0>>, <<0, 1>> }

CachePut(c, text, v) ==
    [t \in DOMAIN c \cup {text} |-> IF t = text THEN v ELSE c[t]]

\* what genai.embed_content can end with: a vector of answers, quota
\* exhaustion, or any other exception
ModelOutcomes(answers) ==
    { [kind |-> "ok", embedding |-> Some(v)] : v \in answers }
    \cup { [kind |-> "ResourceExhausted", embedding |-> None],
           [kind |-> "Exception", embedding |-> None] }

\* CacheLookup that takes a key equal up to letter case for the text
CacheLookupFuzzy(c, text) ==
    IF \E k \in DOMAIN c : Lower(k) = Lower(text)
    THEN Some(c[CHOOSE k \in DOMAIN c : Lower(k) = Lower(text)])
    ELSE None

\* generate_embedding lines 33-35: the cached vector of text, if any
CacheLookup(c, text) == IF text \in DOMAIN c THEN Some(c[text]) ELSE None

\* HandleOutcome storing the unavailable signal under the text on a failure
HandleOutcomeCachesFailure(text, c, o) ==
    IF o.kind = "ok"
    THEN [ret |-> o.embedding, cache |-> CachePut(c, text, Val(o.embedding))]
    ELSE [ret |-> None, cache |-> CachePut(c, text, None)]

\* generate_embedding lines 49-62: the returned value and the cache after the
\* model call ended with o
HandleOutcome(text, c, o) ==
    IF o.kind = "ok"
    THEN [ret |-> o.embedding, cache |-> CachePut(c, text, Val(o.embedding))]
    ELSE [ret |-> None, cache |-> c]

\* EmbeddingService.generate_embedding run without interleaving: the pairs
\* (returned value, cache afterwards) a call can end with
GenerateEmbedding(text, c, answers) ==
    IF ~IsNone(CacheLookup(c, text))
    THEN { [ret |-> CacheLookup(c, text), cache |-> c] }
    ELSE { HandleOutcome(text, c, o) : o \in ModelOutcomes(answers) }

-----------------------------------------------------------------------------
(* Input values.                                                           *)

\* all sequences over S of length at most n
AllSeqs(S, n) == UNION { [1..k -> S] : k \in 0..n }

\* sequences over S of length at most n without a repeated element
DistinctSeqs(S, n) ==
    { q \in AllSeqs(S, n) : \A i, k \in DOMAIN q : i # k => q[i] # q[k] }

TitlePool ==
    { <<"a", " ", "b">>, <<"A", " ", "B">>, <<"b">>, <<"b", " ", "c">>,
      <<"a", " ", "c", " ", "b">>, <<"d">>, <<"d", " ", "b">> }

\* skills a job lists, and skills a user lists
SkillPool == { <<"p">>, <<"P">>, <<"q">> }
UserSkillPool == { <<"P">>, <<"q">>, <<"r">> }

MkExp(t) == [title |-> t, company |-> None, duration |-> None, description |-> None]

ExpPool == { MkExp(None), MkExp(Some(<<"A">>)), MkExp(Some(<<"d">>)),
             MkExp(Some(<<"c", " ", "e">>)) }

MkProfile(titles, skills, experience) ==
    [ name |-> <<"n">>, skills |-> skills, experience |-> experience,
      desired_job_titles |-> titles, summary |-> None ]

MkJob(id, title, description, location, skills, remote, smin, smax) ==
    [ id |-> id, title |-> title, company |-> <<"c">>, description |-> description,
      location |-> location, skills |-> skills, remote |-> remote,
      salary_min |-> smin, salary_max |-> smax ]

MkFilters(location, remote_only, min_salary, max_salary, keywords) ==
    [ location |-> location, remote_only |-> remote_only,
      min_salary |-> min_salary, max_salary |-> max_salary, keywords |-> keywords ]

\* JobSearchFilters(): every field at its default
NoFilters == MkFilters(None, FALSE, None, None, None)

\* job listings for the filter: location, remote flag, salaries, keywords vary
FilterJobPool ==
    { MkJob("f1", <<"a">>, <<"b">>, <<"X", " ", "y">>, <<>>, TRUE, None, None),
      MkJob("f2", <<"B">>, <<"a">>, <<"z">>, <<>>, FALSE, Some(0), Some(0)),
      MkJob("f3", <<"a">>, <<"a">>, <<"x">>, <<>>, TRUE, Some(30), Some(40)),
      MkJob("f4", <<"a">>, <<"a", "b">>, <<"z">>, <<>>, FALSE, Some(30), Some(60)),
      MkJob("f5", <<"a", "B">>, <<>>, <<"y", "x">>, <<>>, TRUE, Some(0), Some(60)),
      MkJob("f6", <<"c">>, <<"c">>, <<>>, <<>>, FALSE, None, Some(50)),
      MkJob("f7", <<"c">>, <<"c">>, <<"z">>, <<>>, TRUE, Some(50), None),
      MkJob("f8", <<"b">>, <<"c">>, <<"x">>, <<>>, FALSE, Some(70), Some(80)) }

FilterPool ==
    { None } \cup
    { Some(MkFilters(l, r, lo, hi, k)) :
        l \in { None, Some(<<>>), Some(<<"X">>) },
        r \in BOOLEAN,
        lo \in { None, Some(0), Some(50) },
        hi \in { None, Some(0), Some(50) },
        k \in { None, Some(<<"B">>) } }

\* inputs of a ranking call
RankProfilePool ==
    { MkProfile(<<>>, <<>>, <<>>),
      MkProfile(<< <<"a", " ", "b">> >>, << <<"p">>, <<"q">> >>,
                << MkExp(Some(<<"a">>)) >>),
      MkProfile(<< <<"b">> >>, << <<"r">> >>,
                << MkExp(Some(<<"b">>)), MkExp(None) >>) }

RankJobPool ==
    { MkJob("j1", <<"a", " ", "b">>, <<"x">>, <<"x">>, << <<"P">>, <<"r">> >>,
            TRUE, Some(30), Some(60)),
      MkJob("j2", <<"A", " ", "B">>, <<"y">>, <<"x">>, << <<"p">>, <<"R">> >>,
            TRUE, Some(30), Some(40)),
      MkJob("j3", <<"b", " ", "c">>, <<"x">>, <<"x">>, << <<"q">> >>,
            FALSE, Some(30), Some(60)),
      MkJob("j4", <<"d">>, <<"x">>, <<"x">>, <<>>, TRUE, None, None) }

RankFilterPool ==
    { None, Some(NoFilters),
      Some(MkFilters(None, TRUE, None, None, None)),
      Some(MkFilters(None, FALSE, Some(50), None, None)) }

\* inputs of _calculate_match: one part ranges widely, the others over a
\* low and a high choice
BaseDesired == { <<>>, << <<"a", " ", "b">> >> }
BaseJobTitles == { <<"A", " ", "B">>, <<"d">> }
BaseUserSkills == { <<>>, << <<"p">>, <<"q">> >> }
BaseJobSkills == { <<>>, << <<"P">>, <<"q">> >> }
BaseExperience ==
    { <<>>, << MkExp(Some(<<"A">>)), MkExp(Some(<<"d">>)), MkExp(Some(<<"A">>)) >> }
BaseEmbeddings ==
    { <<None, None>>, <<Some(<<1, 0>>), Some(<<1, 0>>)>>,
      <<Some(<<1, 0>>), Some(<<-1, 0>>)>> }

MatchInputs ==
    LET OptVecs == { None } \cup { Some(v) : v \in Vecs }
    IN
    \* the title part
    (AllSeqs(TitlePool, MaxTitles) \X TitlePool \X BaseUserSkills \X BaseJobSkills
        \X BaseExperience \X BaseEmbeddings)
    \cup
    \* the skills part
    (BaseDesired \X BaseJobTitles \X AllSeqs(UserSkillPool, MaxSkills)
        \X AllSeqs(SkillPool, MaxSkills) \X BaseExperience \X BaseEmbeddings)
    \cup
    \* the experience part
    (BaseDesired \X TitlePool \X BaseUserSkills \X BaseJobSkills
        \X AllSeqs(ExpPool, MaxExperience) \X BaseEmbeddings)
    \cup
    \* the embedding part
    (BaseDesired \X BaseJobTitles \X BaseUserSkills \X BaseJobSkills
        \X BaseExperience \X (OptVecs \X OptVecs))

-----------------------------------------------------------------------------
(* RecommendationService.rank_jobs, one call.                              *)

NoMatchLocals ==
    /\ job = None
    /\ job_embedding = None
    /\ title_score = None
    /\ skills_result = None
    /\ experience_score = None

\* no generate_embedding coroutine of its own and no API request
NoApi ==
    /\ tasks = <<>>
    /\ embed_log = <<>>
    /\ db = <<>>
    /\ requests = <<>>

Init ==
    /\ pc = "rank"
    /\ user_profile \in RankProfilePool
    /\ jobs \in DistinctSeqs(RankJobPool, MaxJobs)
    /\ filters \in RankFilterPool
    /\ filtered_jobs = <<>>
    /\ user_embedding = None
    /\ job_embeddings = <<>>
    /\ result = <<>>
    /\ cache = <<>>
    /\ embed_requests = <<>>
    /\ NoMatchLocals
    /\ NoApi

\* RankFilter without the "if not filtered_jobs" return of lines 48-50
RankFilterNoEmptyCheck ==
    /\ pc = "rank"
    /\ filtered_jobs' = IF jobs = <<>> THEN <<>> ELSE ApplyFilters(jobs, filters)
    /\ pc' = IF jobs = <<>> THEN "done" ELSE "embed_user"
    /\ result' = <<>>
    /\ UNCHANGED <<user_profile, jobs, filters, user_embedding, job_embeddings,
                   cache, job, job_embedding, title_score, skills_result,
                   experience_score>>
    /\ UNCHANGED serviceVars

\* lines 42-52: empty input, filtering, empty filtered list
RankFilter ==
    /\ pc = "rank"
    /\ LET filtered == IF jobs = <<>> THEN <<>> ELSE ApplyFilters(jobs, filters)
       IN /\ filtered_jobs' = filtered
          /\ pc' = IF filtered = <<>> THEN "done" ELSE "embed_user"
    /\ result' = <<>>
    /\ UNCHANGED <<user_profile, jobs, filters, user_embedding, job_embeddings,
                   cache, job, job_embedding, title_score, skills_result,
                   experience_score>>
    /\ UNCHANGED serviceVars

\* lines 55-57: await embedding_service.embed_user_profile(...)
RankEmbedUser ==
    /\ pc = "embed_user"
    /\ LET text == EmbedUserProfileText(user_profile)
       IN /\ embed_requests' = Append(embed_requests, text)
          /\ \E o \in GenerateEmbedding(text, cache, RankVecs) :
                /\ user_embedding' = o.ret
                /\ cache' = o.cache
    /\ pc' = "embed_jobs"
    /\ UNCHANGED <<user_profile, jobs, filters, filtered_jobs, job_embeddings,
                   result, job, job_embedding, title_score, skills_result,
                   experience_score>>
    /\ UNCHANGED apiVars

\* RankEmbedJob walking the unfiltered jobs list
RankEmbedJobUnfiltered ==
    /\ pc = "embed_jobs"
    /\ Len(job_embeddings) < Len(filtered_jobs)
    /\ LET text == EmbedJobListingText(jobs[Len(job_embeddings) + 1])
       IN /\ embed_requests' = Append(embed_requests, text)
          /\ \E o \in GenerateEmbedding(text, cache, RankVecs) :
                /\ job_embeddings' = Append(job_embeddings, o.ret)
                /\ cache' = o.cache
    /\ UNCHANGED <<pc, user_profile, jobs, filters, filtered_jobs, user_embedding,
                   result, job, job_embedding, title_score, skills_result,
                   experience_score>>
    /\ UNCHANGED apiVars

\* lines 59-64: one iteration, await embedding_service.embed_job_listing(...)
RankEmbedJob ==
    /\ pc = "embed_jobs"
    /\ Len(job_embeddings) < Len(filtered_jobs)
    /\ LET text == EmbedJobListingText(filtered_jobs[Len(job_embeddings) + 1])
       IN /\ embed_requests' = Append(embed_requests, text)
          /\ \E o \in GenerateEmbedding(text, cache, RankVecs) :
                /\ job_embeddings' = Append(job_embeddings, o.ret)
                /\ cache' = o.cache
    /\ UNCHANGED <<pc, user_profile, jobs, filters, filtered_jobs, user_embedding,
                   result, job, job_embedding, title_score, skills_result,
                   experience_score>>
    /\ UNCHANGED apiVars

\* lines 66-81: score every job, sort, return; an exception of
\* _calculate_match leaves rank_jobs
RankScore ==
    /\ pc = "embed_jobs"
    /\ Len(job_embeddings) = Len(filtered_jobs)
    /\ IF \E i \in DOMAIN filtered_jobs :
              CalculateMatchRaises(user_profile, filtered_jobs[i])
       THEN /\ pc' = "raised"
            /\ result' = <<>>
       ELSE /\ pc' = "done"
            /\ result' = SortByScoreDesc(
                  [i \in DOMAIN filtered_jobs |->
                      CalculateMatch(user_profile, filtered_jobs[i],
                                     user_embedding, job_embeddings[i])])
    /\ UNCHANGED <<user_profile, jobs, filters, filtered_jobs, user_embedding,
                   job_embeddings, cache, job, job_embedding, title_score,
                   skills_result, experience_score>>
    /\ UNCHANGED serviceVars

Next == RankFilter \/ RankEmbedUser \/ RankEmbedJob \/ RankScore

Spec == Init /\ [][Next]_vars

-----------------------------------------------------------------------------
(* RecommendationService._apply_filters, one call.                         *)

InitFilter ==
    /\ pc = "filter"
    /\ user_profile = None
    /\ jobs \in AllSeqs(FilterJobPool, MaxFilterJobs)
    /\ filters \in FilterPool
    /\ filtered_jobs = <<>>
    /\ user_embedding = None
    /\ job_embeddings = <<>>
    /\ result = <<>>
    /\ cache = <<>>
    /\ embed_requests = <<>>
    /\ NoMatchLocals
    /\ NoApi

FilterCall ==
    /\ pc = "filter"
    /\ filtered_jobs' = ApplyFilters(jobs, filters)
    /\ pc' = "filter_done"
    /\ UNCHANGED <<user_profile, jobs, filters, user_embedding, job_embeddings,
                   result, cache, job, job_embedding, title_score, skills_result,
                   experience_score>>
    /\ UNCHANGED serviceVars

NextFilter == FilterCall

SpecFilter == InitFilter /\ [][NextFilter]_vars

-----------------------------------------------------------------------------
(* RecommendationService._calculate_match, one call.                       *)

InitMatch ==
    /\ pc = "match_title"
    /\ \E in \in MatchInputs :
          /\ user_profile = MkProfile(in[1], in[3], in[5])
          /\ job = Some(MkJob("m", in[2], <<"x">>, <<"x">>, in[4], FALSE, None, None))
          /\ user_embedding = in[6][1]
          /\ job_embedding = in[6][2]
    /\ jobs = <<>>
    /\ filters = None
    /\ filtered_jobs = <<>>
    /\ job_embeddings = <<>>
    /\ result = <<>>
    /\ cache = <<>>
    /\ embed_requests = <<>>
    /\ title_score = None
    /\ skills_result = None
    /\ experience_score = None
    /\ NoApi

\* line 139
MatchTitle ==
    /\ pc = "match_title"
    /\ title_score' = Some(CalculateTitleMatch(user_profile, Val(job)))
    /\ pc' = "match_skills"
    /\ UNCHANGED <<user_profile, jobs, filters, filtered_jobs, user_embedding,
                   job_embeddings, result, cache, job, job_embedding,
                   skills_result, experience_score>>
    /\ UNCHANGED serviceVars

\* lines 142-144
MatchSkills ==
    /\ pc = "match_skills"
    /\ skills_result' = Some(CalculateSkillsMatch(user_profile, Val(job)))
    /\ pc' = "match_experience"
    /\ UNCHANGED <<user_profile, jobs, filters, filtered_jobs, user_embedding,
                   job_embeddings, result, cache, job, job_embedding,
                   title_score, experience_score>>
    /\ UNCHANGED serviceVars

\* line 147
MatchExperience ==
    /\ pc = "match_experience"
    /\ IF ExperienceMatchRaises(user_profile, Val(job))
       THEN /\ pc' = "match_raised"
            /\ experience_score' = None
       ELSE /\ pc' = "match_blend"
            /\ experience_score' = Some(CalculateExperienceMatch(user_profile, Val(job)))
    /\ UNCHANGED <<user_profile, jobs, filters, filtered_jobs, user_embedding,
                   job_embeddings, result, cache, job, job_embedding,
                   title_score, skills_result>>
    /\ UNCHANGED serviceVars

\* lines 149-190
MatchBlend ==
    /\ pc = "match_blend"
    /\ result' = << BlendMatch(Val(job), Val(title_score), Val(skills_result),
                               Val(experience_score), user_embedding, job_embedding) >>
    /\ pc' = "match_done"
    /\ UNCHANGED <<user_profile, jobs, filters, filtered_jobs, user_embedding,
                   job_embeddings, cache, job, job_embedding, title_score,
                   skills_result, experience_score>>
    /\ UNCHANGED serviceVars

NextMatch == MatchTitle \/ MatchSkills \/ MatchExperience \/ MatchBlend

SpecMatch == InitMatch /\ [][NextMatch]_vars

-----------------------------------------------------------------------------
(* EmbeddingService: concurrent generate_embedding calls and clear_cache.  *)

\* the variables of a recommendation call other than the cache
callVars == <<pc, user_profile, jobs, filters, filtered_jobs, user_embedding,
              job_embeddings, result, job, job_embedding, title_score,
              skills_result, experience_score, embed_requests>>

\* no recommendation call is running
NoCall ==
    /\ user_profile = None
    /\ jobs = <<>>
    /\ filters = None
    /\ filtered_jobs = <<>>
    /\ user_embedding = None
    /\ job_embeddings = <<>>
    /\ result = <<>>
    /\ embed_requests = <<>>
    /\ NoMatchLocals

\* two texts that differ in one character, and the vectors the model answers
\* with
EmbedTexts == << <<"a", "b">>, <<"A", "b">> >>
EmbedVecs == { <<1, 0>>, <<0, 1>> }

\* a generate_embedding(text) coroutine that has not run yet
MkTask(text) == [text |-> text, pc |-> "start", ret |-> None]

\* entries of embed_log
ModelEvent(text, o) ==
    [op |-> "embed_content", text |-> Some(text), kind |-> o.kind,
     embedding |-> o.embedding]
ClearEvent ==
    [op |-> "clear_cache", text |-> None, kind |-> "none", embedding |-> None]

\* number of genai.embed_content calls made so far, answered or not
ModelCalls ==
    Cardinality({ k \in DOMAIN embed_log : embed_log[k].op = "embed_content" })
      + Cardinality({ i \in DOMAIN tasks : tasks[i].pc = "awaiting" })

InitEmbed ==
    /\ pc = "service"
    /\ \E f \in [1..MaxCalls -> DOMAIN EmbedTexts] :
          \* the coroutines are interchangeable: listed in the order of their texts
          /\ \A i \in 1..(MaxCalls - 1) : f[i] <= f[i + 1]
          /\ tasks = [i \in 1..MaxCalls |-> MkTask(EmbedTexts[f[i]])]
    /\ embed_log = <<>>
    /\ cache = <<>>
    /\ db = <<>>
    /\ requests = <<>>
    /\ NoCall

\* generate_embedding lines 33-47, up to the await: a cache hit returns the
\* cached vector, a miss hands the text to the model
EmbedBegin(i) ==
    /\ tasks[i].pc = "start"
    /\ LET hit == CacheLookup(cache, tasks[i].text)
       IN tasks' = [tasks EXCEPT ![i] =
                      IF IsNone(hit) THEN [@ EXCEPT !.pc = "awaiting"]
                      ELSE [@ EXCEPT !.pc = "done", !.ret = hit]]
    /\ UNCHANGED <<cache, embed_log, db, requests>>
    /\ UNCHANGED callVars

\* generate_embedding lines 47-62, after the await: the model call ended
EmbedComplete(i) ==
    /\ tasks[i].pc = "awaiting"
    /\ \E o \in ModelOutcomes(EmbedVecs) :
          LET h == HandleOutcome(tasks[i].text, cache, o)
          IN /\ cache' = h.cache
             /\ tasks' = [tasks EXCEPT ![i] = [@ EXCEPT !.pc = "done", !.ret = h.ret]]
             /\ embed_log' = Append(embed_log, ModelEvent(tasks[i].text, o))
    /\ UNCHANGED <<db, requests>>
    /\ UNCHANGED callVars

\* EmbeddingService.clear_cache, lines 155-158
ClearCache ==
    /\ Cardinality({ k \in DOMAIN embed_log : embed_log[k].op = "clear_cache" })
         < MaxClears
    /\ cache' = <<>>
    /\ embed_log' = Append(embed_log, ClearEvent)
    /\ UNCHANGED <<tasks, db, requests>>
    /\ UNCHANGED callVars

NextEmbed ==
    \/ \E i \in DOMAIN tasks : EmbedBegin(i)
    \/ \E i \in DOMAIN tasks : EmbedComplete(i)
    \/ ClearCache

SpecEmbed == InitEmbed /\ [][NextEmbed]_vars

-----------------------------------------------------------------------------
(* The database tables and the requests of the API.                        *)

\* columns of user_profiles that the model keeps; a column holds Some(value)
\* or None (NULL)
ProfileFields == { "name", "email", "skills" }

MkRow(name, email, skills) ==
    [name |-> Some(name), email |-> email, skills |-> Some(skills)]

\* the tables after two profiles were created and no job was saved
InitDb ==
    [ user_profiles |->
        [id \in {1, 2} |->
            IF id = 1 THEN MkRow(<<"n">>, Some(<<"e">>), << <<"p">> >>)
            ELSE MkRow(<<"m">>, Some(<<"f">>), <<>>)],
      saved_jobs |-> <<>>,
      saved_jobs_seq |-> 0 ]

\* user ids of the requests: a stored one and one that no row has
RequestUserIds == << 1, 3 >>

\* a request that has not run yet
MkRequest(op, user_id, arg) ==
    [op |-> op, user_id |-> user_id, arg |-> arg, pc |-> "select",
     loaded |-> None, profile |-> None, response |-> None]

\* the recommendation core and the embedding service are idle
NoCore ==
    /\ pc = "api"
    /\ cache = <<>>
    /\ tasks = <<>>
    /\ embed_log = <<>>
    /\ NoCall

coreVars == <<cache, tasks, embed_log>>

-----------------------------------------------------------------------------
(* api/profile.py: update_profile requests.                                *)

\* a field of a ProfileUpdate: not in the request body, null, or a value
Unset == [set |-> FALSE, value |-> None]
Null == [set |-> TRUE, value |-> None]
Given(v) == [set |-> TRUE, value |-> Some(v)]

MkUpdate(name, email, skills) == [name |-> name, email |-> email, skills |-> skills]

UpdatePool ==
    << MkUpdate(Given(<<"x">>), Unset, Unset),
       MkUpdate(Null, Given(<<"g">>), Unset),
       MkUpdate(Unset, Given(<<"f">>), Given(<<>>)),
       MkUpdate(Unset, Unset, Unset),
       MkUpdate(Given(<<"n">>), Null, Given(<< <<"q">> >>)),
       MkUpdate(Null, Null, Null) >>

\* profile_update.model_dump(exclude_unset=True), line 139: the keys
UpdateData(u) == { f \in ProfileFields : u[f].set }

\* SetAttrs without the "is not None" test of line 141
SetAttrsNulls(row, u) ==
    [f \in ProfileFields |-> IF f \in UpdateData(u) THEN u[f].value ELSE row[f]]

\* lines 140-142: the loaded object after the setattr loop
SetAttrs(row, u) ==
    [f \in ProfileFields |->
        IF f \in UpdateData(u) /\ ~IsNone(u[f].value) THEN u[f].value ELSE row[f]]

InitProfile ==
    /\ NoCore
    /\ db = InitDb
    /\ \E k \in [1..MaxUpdates -> 1..(Len(UpdatePool) * Len(RequestUserIds))] :
          \* the requests are interchangeable: listed in the order of the pool
          /\ \A i \in 1..(MaxUpdates - 1) : k[i] <= k[i + 1]
          /\ requests =
               [i \in 1..MaxUpdates |->
                  MkRequest("update_profile",
                            RequestUserIds[((k[i] - 1) \div Len(UpdatePool)) + 1],
                            UpdatePool[((k[i] - 1) % Len(UpdatePool)) + 1])]

\* lines 130-142: select the row, 404 when there is none, set the attributes
UpdateSelect(i) ==
    /\ requests[i].op = "update_profile"
    /\ requests[i].pc = "select"
    /\ LET r == requests[i]
       IN requests' = [requests EXCEPT ![i] =
            IF r.user_id \notin DOMAIN db.user_profiles
            THEN [r EXCEPT !.pc = "done",
                           !.response = Some([status |-> 404, body |-> None])]
            ELSE [r EXCEPT !.pc = "commit",
                           !.loaded = Some(db.user_profiles[r.user_id]),
                           !.profile = Some(SetAttrs(db.user_profiles[r.user_id], r.arg))]]
    /\ UNCHANGED db
    /\ UNCHANGED coreVars
    /\ UNCHANGED callVars

\* line 144, await db.commit(): the UPDATE carries the attributes whose value
\* differs from the loaded one; a second row with the same email violates
\* the unique constraint of user_profiles.email and the request ends with 500
UpdateCommit(i) ==
    /\ requests[i].op = "update_profile"
    /\ requests[i].pc = "commit"
    /\ LET r == requests[i]
           row == db.user_profiles[r.user_id]
           obj == Val(r.profile)
           dirty == { f \in ProfileFields : obj[f] # Val(r.loaded)[f] }
           new == [f \in ProfileFields |-> IF f \in dirty THEN obj[f] ELSE row[f]]
           conflict ==
             /\ "email" \in dirty
             /\ ~IsNone(obj["email"])
             /\ \E v \in DOMAIN db.user_profiles :
                   v # r.user_id /\ db.user_profiles[v]["email"] = obj["email"]
       IN IF conflict
          THEN /\ requests' = [requests EXCEPT ![i] =
                    [r EXCEPT !.pc = "done",
                              !.response = Some([status |-> 500, body |-> None])]]
               /\ UNCHANGED db
          ELSE /\ requests' = [requests EXCEPT ![i] = [r EXCEPT !.pc = "refresh"]]
               /\ db' = [db EXCEPT !.user_profiles[r.user_id] = new]
    /\ UNCHANGED coreVars
    /\ UNCHANGED callVars

\* lines 145-148: await db.refresh(profile) and the response
UpdateRefresh(i) ==
    /\ requests[i].op = "update_profile"
    /\ requests[i].pc = "refresh"
    /\ LET r == requests[i]
       IN requests' = [requests EXCEPT ![i] =
            [r EXCEPT !.pc = "done",
                      !.response = Some([status |-> 200,
                                         body |-> Some(db.user_profiles[r.user_id])])]]
    /\ UNCHANGED db
    /\ UNCHANGED coreVars
    /\ UNCHANGED callVars

NextProfile ==
    \/ \E i \in DOMAIN requests : UpdateSelect(i)
    \/ \E i \in DOMAIN requests : UpdateCommit(i)
    \/ \E i \in DOMAIN requests : UpdateRefresh(i)

SpecProfile == InitProfile /\ [][NextProfile]_vars

-----------------------------------------------------------------------------
(* api/jobs.py: save_job and unsave_job requests.                          *)

SavePool ==
    << MkRequest("save_job", 1, "a"),
       MkRequest("save_job", 1, "b"),
       MkRequest("save_job", 3, "a"),
       MkRequest("unsave_job", 1, "a") >>

\* the rows of saved_jobs a select by (user_id, job_id) finds
SavedRows(d, user_id, job_id) ==
    LET Match(row) == row.user_id = user_id /\ row.job_id = job_id
    IN SelectSeq(d.saved_jobs, Match)

\* the end of a request
Respond(r, status, message, id) ==
    [r EXCEPT !.pc = "done",
              !.response = Some([status |-> status, message |-> message, id |-> id])]

InitJobs ==
    /\ NoCore
    /\ db = InitDb
    /\ \E k \in [1..MaxSaves -> DOMAIN SavePool] :
          \* the requests are interchangeable: listed in the order of the pool
          /\ \A i \in 1..(MaxSaves - 1) : k[i] <= k[i + 1]
          /\ requests = [i \in 1..MaxSaves |-> SavePool[k[i]]]

\* save_job lines 85-91: select the user, 404 when there is none
SaveSelectUser(i) ==
    /\ requests[i].op = "save_job"
    /\ requests[i].pc = "select"
    /\ LET r == requests[i]
       IN requests' = [requests EXCEPT ![i] =
            IF r.user_id \notin DOMAIN db.user_profiles
            THEN Respond(r, 404, "User not found", None)
            ELSE [r EXCEPT !.pc = "select_saved"]]
    /\ UNCHANGED db
    /\ UNCHANGED coreVars
    /\ UNCHANGED callVars

\* save_job lines 94-114: select the saved row; scalar_one_or_none raises
\* MultipleResultsFound for more than one row
SaveSelectSaved(i) ==
    /\ requests[i].op = "save_job"
    /\ requests[i].pc = "select_saved"
    /\ LET r == requests[i]
           rows == SavedRows(db, r.user_id, r.arg)
       IN requests' = [requests EXCEPT ![i] =
            IF Len(rows) > 1 THEN Respond(r, 500, "MultipleResultsFound", None)
            ELSE IF Len(rows) = 1
                 THEN Respond([r EXCEPT !.loaded = Some(rows[1])],
                              200, "Job already saved", Some(rows[1].id))
            ELSE [r EXCEPT !.pc = "commit"]]
    /\ UNCHANGED db
    /\ UNCHANGED coreVars
    /\ UNCHANGED callVars

\* save_job line 115, await db.commit(): the INSERT; saved_jobs has no unique
\* constraint on (user_id, job_id)
SaveCommit(i) ==
    /\ requests[i].op = "save_job"
    /\ requests[i].pc = "commit"
    /\ LET r == requests[i]
           row == [id |-> db.saved_jobs_seq + 1, user_id |-> r.user_id, job_id |-> r.arg]
       IN /\ db' = [db EXCEPT !.saved_jobs = Append(@, row),
                              !.saved_jobs_seq = @ + 1]
          /\ requests' = [requests EXCEPT ![i] =
                [r EXCEPT !.pc = "refresh", !.loaded = Some(row)]]
    /\ UNCHANGED coreVars
    /\ UNCHANGED callVars

\* save_job lines 116-119: await db.refresh(saved_job), which raises when the
\* row is gone, and the response
SaveRefresh(i) ==
    /\ requests[i].op = "save_job"
    /\ requests[i].pc = "refresh"
    /\ LET r == requests[i]
       IN requests' = [requests EXCEPT ![i] =
            IF \E k \in DOMAIN db.saved_jobs : db.saved_jobs[k].id = Val(r.loaded).id
            THEN Respond(r, 200, "Job saved successfully", Some(Val(r.loaded).id))
            ELSE Respond(r, 500, "InvalidRequestError", None)]
    /\ UNCHANGED db
    /\ UNCHANGED coreVars
    /\ UNCHANGED callVars

\* unsave_job lines 129-140: select the saved row, 404 when there is none
UnsaveSelect(i) ==
    /\ requests[i].op = "unsave_job"
    /\ requests[i].pc = "select"
    /\ LET r == requests[i]
           rows == SavedRows(db, r.user_id, r.arg)
       IN requests' = [requests EXCEPT ![i] =
            IF Len(rows) > 1 THEN Respond(r, 500, "MultipleResultsFound", None)
            ELSE IF Len(rows) = 0 THEN Respond(r, 404, "Saved job not found", None)
            ELSE [r EXCEPT !.pc = "commit", !.loaded = Some(rows[1])]]
    /\ UNCHANGED db
    /\ UNCHANGED coreVars
    /\ UNCHANGED callVars

\* unsave_job lines 142-146: the DELETE of the loaded row by its id, and the
\* response
UnsaveCommit(i) ==
    /\ requests[i].op = "unsave_job"
    /\ requests[i].pc = "commit"
    /\ LET r == requests[i]
           Other(row) == row.id # Val(r.loaded).id
       IN /\ db' = [db EXCEPT !.saved_jobs = SelectSeq(@, Other)]
          /\ requests' = [requests EXCEPT ![i] =
                Respond(r, 200, "Job removed from saved jobs", None)]
    /\ UNCHANGED coreVars
    /\ UNCHANGED callVars

NextJobs ==
    \/ \E i \in DOMAIN requests : SaveSelectUser(i)
    \/ \E i \in DOMAIN requests : SaveSelectSaved(i)
    \/ \E i \in DOMAIN requests : SaveCommit(i)
    \/ \E i \in DOMAIN requests : SaveRefresh(i)
    \/ \E i \in DOMAIN requests : UnsaveSelect(i)
    \/ \E i \in DOMAIN requests : UnsaveCommit(i)

SpecJobs == InitJobs /\ [][NextJobs]_vars

-----------------------------------------------------------------------------
(* Properties.                                                             *)

\* position of listing j in the list js
JobIndex(js, j) == CHOOSE n \in DOMAIN js : js[n] = j

LowerSet(seq) == { Lower(x) : x \in Range(seq) }

\* the filter f has no active field other than remote_only
OnlyRemoteActive(f) ==
    /\ IsNone(f.location) \/ Val(f.location) = <<>>
    /\ IsNone(f.min_salary)
    /\ IsNone(f.max_salary)
    /\ IsNone(f.keywords) \/ Val(f.keywords) = <<>>

\* C1: the list rank_jobs returns is in non-increasing order of match_score,
\* and two items of equal score are in the order their jobs have in the
\* filtered input.
C1_SortedStable ==
    pc = "done" =>
      /\ \A i \in 1..(Len(result) - 1) :
            result[i].match_score >= result[i + 1].match_score
      /\ \A i, k \in DOMAIN result :
            (i < k /\ result[i].match_score = result[k].match_score)
              => JobIndex(filtered_jobs, result[i].job)
                   < JobIndex(filtered_jobs, result[k].job)

\* a returned ranking of three jobs with a tie and a strict step, in which
\* sorting moved a job and the filter removed one
C1_Witness ==
    /\ pc = "done"
    /\ Len(result) = 3
    /\ Len(filtered_jobs) < Len(jobs)
    /\ \E i \in 1..2 : result[i].match_score = result[i + 1].match_score
    /\ \E i \in 1..2 : result[i].match_score > result[i + 1].match_score
    /\ \E i \in 1..3 : result[i].job # filtered_jobs[i]

\* C2: when jobs is empty or the filters remove every job, rank_jobs returns
\* the empty list and does not raise.
C2_EmptyResult ==
    (pc # "rank" /\ (jobs = <<>> \/ ApplyFilters(jobs, filters) = <<>>))
      => (pc = "done" /\ result = <<>>)

\* a call whose non-empty jobs list is emptied by the filters has returned
C2_Witness ==
    /\ pc = "done"
    /\ jobs # <<>>
    /\ ~IsNone(filters)
    /\ ApplyFilters(jobs, filters) = <<>>
    /\ result = <<>>

\* C3: every score of a MatchExplanation lies in [0,100] (scores are kept in
\* hundredths).
C3_ScoresInRange ==
    pc = "match_done" =>
      LET e == result[1].explanation
      IN /\ e.title_score \in 0..10000
         /\ e.skills_score \in 0..10000
         /\ e.experience_score \in 0..10000
         /\ e.embedding_score \in 0..10000
         /\ e.overall_score \in 0..10000

\* an explanation made with both vectors available and opposite, the lowest
\* embedding score, next to a full title and skills score
C3_Witness ==
    /\ pc = "match_done"
    /\ ~IsNone(user_embedding) /\ ~IsNone(job_embedding)
    /\ result[1].explanation.embedding_score = 0
    /\ result[1].explanation.title_score = 10000
    /\ result[1].explanation.skills_score = 10000

\* C4: matched_skills and missing_skills together hold, compared
\* case-insensitively as sets, exactly job.skills; both are empty when
\* job.skills is empty.
C4_SkillsPartition ==
    ~IsNone(skills_result) =>
      LET r == Val(skills_result)
      IN IF Val(job).skills = <<>>
         THEN r.matched_skills = <<>> /\ r.missing_skills = <<>>
         ELSE LowerSet(r.matched_skills) \cup LowerSet(r.missing_skills)
                = LowerSet(Val(job).skills)

\* a skills result with a matched and a missing skill, for a user who has a
\* skill the job does not ask for
C4_Witness ==
    /\ ~IsNone(skills_result)
    /\ Val(skills_result).matched_skills # <<>>
    /\ Val(skills_result).missing_skills # <<>>
    /\ LowerSet(user_profile.skills) \ LowerSet(Val(job).skills) # {}

\* C5: with the embedding unavailable, embedding_score is reported as 0 and
\* the overall score is (0.25*title + 0.40*skills + 0.15*experience) / 0.80,
\* reported rounded to 2 decimals.
C5_Renormalized ==
    (pc = "match_done" /\ (IsNone(user_embedding) \/ IsNone(job_embedding))) =>
      LET t == Val(title_score)
          k == Val(skills_result).score
          x == Val(experience_score)
          num == 25 * t[1] * k[2] * x[2] + 40 * k[1] * t[2] * x[2]
                   + 15 * x[1] * t[2] * k[2]
          den == 80 * t[2] * k[2] * x[2]
      IN /\ result[1].explanation.embedding_score = 0
         /\ result[1].explanation.overall_score = RoundHalfEven(100 * num, den)
         /\ result[1].match_score = RoundHalfEven(100 * num, den)

\* title 20, skills 50, experience 30 without embedding: 29.5 / 0.8 = 36.875,
\* reported as 36.88
C5_Witness ==
    /\ pc = "match_done"
    /\ IsNone(user_embedding)
    /\ Val(title_score) = RatInt(20)
    /\ Val(skills_result).score = RatInt(50)
    /\ Val(experience_score) = RatInt(30)
    /\ result[1].match_score = 3688

\* C6: with both vectors available the overall score is
\* 0.25*title + 0.40*skills + 0.15*experience + 0.20*embedding, reported
\* rounded to 2 decimals, and the four weights sum to 1.
C6_WeightedSum ==
    /\ RatAdd(RatAdd(weights.title, weights.skills),
              RatAdd(weights.experience, weights.embedding)) = RatInt(1)
    /\ (pc = "match_done" /\ ~IsNone(user_embedding) /\ ~IsNone(job_embedding)) =>
         LET t == Val(title_score)
             k == Val(skills_result).score
             x == Val(experience_score)
             m == CalculateEmbeddingSimilarity(Val(user_embedding), Val(job_embedding))
             num == 25 * t[1] * k[2] * x[2] * m[2] + 40 * k[1] * t[2] * x[2] * m[2]
                      + 15 * x[1] * t[2] * k[2] * m[2] + 20 * m[1] * t[2] * k[2] * x[2]
             den == 100 * t[2] * k[2] * x[2] * m[2]
         IN /\ result[1].explanation.overall_score = RoundHalfEven(100 * num, den)
            /\ result[1].match_score = RoundHalfEven(100 * num, den)

\* a blend of four sub-scores with an embedding score of 80 (cosine 0.6)
C6_Witness ==
    /\ pc = "match_done"
    /\ ~IsNone(user_embedding) /\ ~IsNone(job_embedding)
    /\ result[1].explanation.embedding_score = 8000
    /\ result[1].explanation.title_score = 10000
    /\ result[1].explanation.skills_score = 0

\* C7: the title score is 100 whenever some desired title, at any position,
\* equals the job title case-insensitively, and 50 when there is no desired
\* title.
C7_ExactTitleAnywhere ==
    ~IsNone(title_score) =>
      /\ (\E i \in DOMAIN user_profile.desired_job_titles :
             Lower(user_profile.desired_job_titles[i]) = Lower(Val(job).title))
           => Val(title_score) = RatInt(100)
      /\ user_profile.desired_job_titles = <<>> => Val(title_score) = RatInt(50)

\* C8: the skills score is 50 with empty lists when job.skills is empty, and
\* otherwise 100 * |matched| / |job skill set| over the lower-cased,
\* deduplicated job skills.
C8_SkillsScore ==
    ~IsNone(skills_result) =>
      LET r == Val(skills_result)
          job_set == LowerSet(Val(job).skills)
          matched == job_set \cap LowerSet(user_profile.skills)
      IN IF Val(job).skills = <<>>
         THEN /\ r.score = RatInt(50)
              /\ r.matched_skills = <<>>
              /\ r.missing_skills = <<>>
         ELSE r.score[1] * Cardinality(job_set)
                = 100 * Cardinality(matched) * r.score[2]

\* a job that lists one skill twice in different case, matched by the user
C8_Witness ==
    /\ ~IsNone(skills_result)
    /\ Len(Val(job).skills) > Cardinality(LowerSet(Val(job).skills))
    /\ Val(skills_result).score = RatInt(100)

\* C9: with remote_only set the filter output holds only remote jobs, is no
\* longer than the input, and, when no other filter is active, holds every
\* remote job of the input.
C9_RemoteOnly ==
    (pc = "filter_done" /\ ~IsNone(filters) /\ Val(filters).remote_only) =>
      /\ \A i \in DOMAIN filtered_jobs : filtered_jobs[i].remote
      /\ Len(filtered_jobs) <= Len(jobs)
      /\ OnlyRemoteActive(Val(filters)) =>
           \A i \in DOMAIN jobs :
              jobs[i].remote => jobs[i] \in Range(filtered_jobs)

\* remote_only alone applied to a list with a remote and a non-remote job
C9_Witness ==
    /\ pc = "filter_done"
    /\ ~IsNone(filters) /\ Val(filters).remote_only
    /\ OnlyRemoteActive(Val(filters))
    /\ filtered_jobs # <<>>
    /\ Len(filtered_jobs) < Len(jobs)

\* C10: with min_salary set, the min_salary filter keeps exactly the jobs
\* whose salary_max is present and >= min_salary.
C10_MinSalaryExact ==
    (pc = "filter_done" /\ ~IsNone(filters) /\ ~IsNone(Val(filters).min_salary)) =>
      LET f == Val(filters)
          Keep(j) == ~IsNone(j.salary_max) /\ Val(j.salary_max) >= Val(f.min_salary)
          others == ApplyFilters(jobs, Some([f EXCEPT !.min_salary = None]))
      IN filtered_jobs = SelectSeq(others, Keep)

\* C11: with max_salary set, the max_salary filter keeps exactly the jobs
\* whose salary_min is present (0 included) and <= max_salary.
C11_MaxSalaryExact ==
    (pc = "filter_done" /\ ~IsNone(filters) /\ ~IsNone(Val(filters).max_salary)) =>
      LET f == Val(filters)
          Keep(j) == ~IsNone(j.salary_min) /\ Val(j.salary_min) <= Val(f.max_salary)
          others == ApplyFilters(jobs, Some([f EXCEPT !.max_salary = None]))
      IN filtered_jobs = SelectSeq(others, Keep)

\* C12: the filter output is exactly the subsequence, in input order, of the
\* jobs that satisfy every set filter (location and keywords as
\* case-insensitive substrings, remote_only, salary_max present and
\* >= min_salary, salary_min present and <= max_salary); without a filters
\* object, or with no field set, it is the input.
C12_Conjunction ==
    pc = "filter_done" =>
      IF IsNone(filters) THEN filtered_jobs = jobs
      ELSE
        LET f == Val(filters)
            Satisfies(j) ==
              /\ ~IsNone(f.location) =>
                    IsSubstring(Lower(Val(f.location)), Lower(j.location))
              /\ f.remote_only => j.remote
              /\ ~IsNone(f.min_salary) =>
                    (~IsNone(j.salary_max) /\ Val(j.salary_max) >= Val(f.min_salary))
              /\ ~IsNone(f.max_salary) =>
                    (~IsNone(j.salary_min) /\ Val(j.salary_min) <= Val(f.max_salary))
              /\ ~IsNone(f.keywords) =>
                    \/ IsSubstring(Lower(Val(f.keywords)), Lower(j.title))
                    \/ IsSubstring(Lower(Val(f.keywords)), Lower(j.description))
        IN /\ filtered_jobs = SelectSeq(jobs, Satisfies)
           /\ f = NoFilters => filtered_jobs = jobs

\* C13: the title, skills and experience calculations return a value for
\* every profile and job, experience entries without a title included; none
\* of them raises.
C13_SubScoresTotal ==
    /\ pc # "match_raised"
    /\ pc \in {"match_blend", "match_done"} =>
         (~IsNone(title_score) /\ ~IsNone(skills_result) /\ ~IsNone(experience_score))

\* C14: every generate_embedding call of rank_jobs ends with a vector or with
\* None, and rank_jobs then returns a ranking of the filtered jobs; it never
\* ends with an exception.
C14_DegradedNotError ==
    LET Returned(e) == IsNone(e) \/ Val(e) \in Vecs
    IN /\ Returned(user_embedding)
       /\ \A i \in DOMAIN job_embeddings : Returned(job_embeddings[i])
       /\ pc # "raised"
       /\ pc = "done" => Len(result) = Len(filtered_jobs)

\* C15 as stated: the embedding score of two identical vectors lies in
\* [90,100], and two orthogonal vectors score strictly lower than any two
\* identical vectors.
C15_IdenticalHigh ==
    (pc = "match_done" /\ ~IsNone(user_embedding) /\ ~IsNone(job_embedding)) =>
      LET u == Val(user_embedding)
          v == Val(job_embedding)
          s == result[1].explanation.embedding_score
      IN /\ u = v => s \in 9000..10000
         /\ Dot(u, v) = 0 =>
              \A w \in Vecs : s < Round2(CalculateEmbeddingSimilarity(w, w))

\* C15: the embedding score is (cos + 1) / 2 * 100, reported rounded to 2
\* decimals, where cos is the dot product over the product of the norms and
\* a zero norm counts as 1; two identical non-zero vectors score 100, and two
\* orthogonal vectors score 50, strictly lower than identical non-zero ones.
C15_CosineRemap ==
    (pc = "match_done" /\ ~IsNone(user_embedding) /\ ~IsNone(job_embedding)) =>
      LET u == Val(user_embedding)
          v == Val(job_embedding)
          d == Dot(u, v)
          n == Norm(u) * Norm(v)
          s == result[1].explanation.embedding_score
      IN /\ s = RoundHalfEven(100 * 50 * (d + n), n)
         /\ (u = v /\ Dot(u, u) # 0) => s = 10000
         /\ d = 0 =>
              /\ s = 5000
              /\ \A w \in Vecs :
                    Dot(w, w) # 0 => s < Round2(CalculateEmbeddingSimilarity(w, w))

\* two identical vectors of norm 5 score 100
C15_Witness ==
    /\ pc = "match_done"
    /\ user_embedding = Some(<<3, 4>>)
    /\ job_embedding = Some(<<3, 4>>)
    /\ result[1].explanation.embedding_score = 10000

\* C18: a rank_jobs call hands to generate_embedding the profile text and
\* then the text of each filtered job in order, N+1 texts for N filtered
\* jobs, after filtering and before any job is scored; a job the filters
\* removed is not embedded, and nothing is embedded when the jobs list or the
\* filtered list is empty.
C18_EmbeddingRequests ==
    LET expected ==
          <<EmbedUserProfileText(user_profile)>>
            \o [i \in DOMAIN filtered_jobs |-> EmbedJobListingText(filtered_jobs[i])]
    IN /\ pc \in {"rank", "embed_user"} => embed_requests = <<>>
       /\ pc = "embed_jobs" =>
            embed_requests = SubSeq(expected, 1, 1 + Len(job_embeddings))
       /\ pc \in {"done", "raised"} =>
            /\ filtered_jobs = ApplyFilters(jobs, filters) \/ jobs = <<>>
            /\ embed_requests = IF filtered_jobs = <<>> THEN <<>> ELSE expected
            /\ filtered_jobs # <<>> => Len(embed_requests) = Len(filtered_jobs) + 1
            /\ \A i \in DOMAIN jobs :
                  jobs[i] \notin Range(filtered_jobs)
                    => EmbedJobListingText(jobs[i]) \notin Range(embed_requests)

\* a returned ranking of two jobs, made with three requests, of a list from
\* which the filters removed the first job
C18_Witness ==
    /\ pc = "done"
    /\ Len(result) = 2
    /\ Len(embed_requests) = 3
    /\ Len(jobs) > 2
    /\ jobs[1] \notin Range(filtered_jobs)

\* the step is a clear_cache call
ClearStep ==
    /\ Len(embed_log') = Len(embed_log) + 1
    /\ embed_log'[Len(embed_log')].op = "clear_cache"

\* C16: a generate_embedding call whose exact text is a cache key returns the
\* stored vector and calls the model no further time; a call whose text is
\* no cache key calls the model; clear_cache leaves the cache empty.
C16_ExactKey ==
    [][/\ \A i \in DOMAIN tasks :
             (tasks[i].pc = "start" /\ tasks'[i].pc # "start") =>
                IF tasks[i].text \in DOMAIN cache
                THEN /\ tasks'[i].pc = "done"
                     /\ tasks'[i].ret = Some(cache[tasks[i].text])
                     /\ ModelCalls' = ModelCalls
                ELSE /\ tasks'[i].pc = "awaiting"
                     /\ ModelCalls' = ModelCalls + 1
       /\ ClearStep => DOMAIN cache' = {}]_vars

\* a vector was cached for a text, a call was served from the cache,
\* clear_cache ran, and the model was then called again for that text
C16_Witness ==
    /\ \E k1, k2, k3 \in DOMAIN embed_log :
          /\ k1 < k2 /\ k2 < k3
          /\ embed_log[k1].kind = "ok"
          /\ embed_log[k2].op = "clear_cache"
          /\ embed_log[k3].op = "embed_content"
          /\ embed_log[k3].text = embed_log[k1].text
    /\ Cardinality({ i \in DOMAIN tasks : tasks[i].pc = "done" })
         > Cardinality({ k \in DOMAIN embed_log : embed_log[k].op = "embed_content" })

\* C17: between two clear_cache calls a text that has a cached vector keeps
\* that vector: no step other than clear_cache removes or replaces it.
C17_CacheStable ==
    [][~ClearStep =>
         \A t \in DOMAIN cache : t \in DOMAIN cache' /\ cache'[t] = cache[t]]_vars

C20_NoDuplicateSaves ==
    /\ \A i, k \in DOMAIN db.saved_jobs :
          (/\ db.saved_jobs[i].user_id = db.saved_jobs[k].user_id
           /\ db.saved_jobs[i].job_id = db.saved_jobs[k].job_id) => i = k
    /\ \A i \in DOMAIN db.saved_jobs :
          db.saved_jobs[i].user_id \in DOMAIN db.user_profiles
    /\ \A i \in DOMAIN requests :
          (requests[i].op = "save_job" /\ requests[i].pc = "done") =>
             LET r == requests[i]
                 resp == Val(r.response)
             IN /\ r.user_id \notin DOMAIN db.user_profiles => resp.status = 404
                /\ resp.message = "Job already saved" =>
                      resp.id = Some(Val(r.loaded).id)

\* how a desired title matches a job title: "exact", "partial", "words" or
\* "none"
TitleMatchKind(desired_title, job_title) ==
    LET d == Lower(desired_title)
        t == Lower(job_title)
    IN IF d = t THEN "exact"
       ELSE IF IsSubstring(d, t) \/ IsSubstring(t, d) THEN "partial"
       ELSE IF SplitWords(d) \cap SplitWords(t) # {} THEN "words"
       ELSE "none"

\* the positions of the desired titles that match the job title in some way
TitleHits(profile, j) ==
    { i \in DOMAIN profile.desired_job_titles :
        TitleMatchKind(profile.desired_job_titles[i], j.title) # "none" }

\* C21: with a non-empty desired-title list the title score is decided by
\* the first desired title that matches the job title in any way: 100 for
\* a case-insensitive equal title, else 80 when one lower-cased title is a
\* substring of the other, else 60 * |overlap| / max(|desired words|,
\* |job words|); later desired titles are not examined.
C21_FirstMatchDecides ==
    (~IsNone(title_score) /\ TitleHits(user_profile, Val(job)) # {}) =>
      LET hits  == TitleHits(user_profile, Val(job))
          first == CHOOSE i \in hits : \A k \in hits : i <= k
          d     == user_profile.desired_job_titles[first]
          kind  == TitleMatchKind(d, Val(job).title)
          dw    == SplitWords(Lower(d))
          jw    == SplitWords(Lower(Val(job).title))
          larger == IF Cardinality(dw) >= Cardinality(jw)
                    THEN Cardinality(dw) ELSE Cardinality(jw)
          score == Val(title_score)
      IN /\ kind = "exact" => score = RatInt(100)
         /\ kind = "partial" => score = RatInt(80)
         /\ kind = "words" =>
               score[1] * larger = 60 * Cardinality(dw \cap jw) * score[2]

\* the first desired title is contained in the job title and scores 80
\* although the second one equals the job title
C21_Witness ==
    /\ ~IsNone(title_score)
    /\ Len(user_profile.desired_job_titles) = 2
    /\ TitleMatchKind(user_profile.desired_job_titles[1], Val(job).title) = "partial"
    /\ TitleMatchKind(user_profile.desired_job_titles[2], Val(job).title) = "exact"
    /\ Val(title_score) = RatInt(80)

\* C22: with a non-empty desired-title list the title score is 20 exactly
\* when no desired title equals the job title, is a substring of it,
\* contains it or shares a word with it; in every other case it is greater
\* than 20.
C22_TwentyIffNoMatch ==
    (~IsNone(title_score) /\ user_profile.desired_job_titles # <<>>) =>
      /\ Val(title_score) = RatInt(20) <=> TitleHits(user_profile, Val(job)) = {}
      /\ TitleHits(user_profile, Val(job)) # {} => RatLt(RatInt(20), Val(title_score))

\* C23: the experience score is 30 for a user without experience entries;
\* otherwise it is 50 plus 10, 20 or 30 for exactly 1, exactly 2, or 3 or
\* more entries, plus 10 once when at least one entry's title shares a
\* lower-cased word with the job title, capped at 100.
C23_ExperienceScore ==
    pc \in {"match_blend", "match_done", "match_raised"} =>
      LET experience == user_profile.experience
          n == Len(experience)
          job_words == SplitWords(Lower(Val(job).title))
          shares == \E i \in DOMAIN experience :
                       /\ ~IsNone(experience[i].title)
                       /\ SplitWords(Lower(Val(experience[i].title))) \cap job_words # {}
          counted == IF n = 1 THEN 10 ELSE IF n = 2 THEN 20 ELSE 30
          expected == IF n = 0 THEN 30
                      ELSE IF 50 + counted + (IF shares THEN 10 ELSE 0) > 100 THEN 100
                      ELSE 50 + counted + (IF shares THEN 10 ELSE 0)
      IN experience_score = Some(RatInt(expected))

\* C24: matched_skills and missing_skills are subsequences of job.skills:
\* the job's own strings, in the job's order, whose lower-cased form is
\* (respectively is not) among the user's lower-cased skills; a user's
\* spelling of a skill appears in neither list.
C24_JobSpelling ==
    ~IsNone(skills_result) =>
      LET r == Val(skills_result)
          user_set == LowerSet(user_profile.skills)
          Has(skill) == Lower(skill) \in user_set
          Lacks(skill) == Lower(skill) \notin user_set
      IN /\ r.matched_skills = SelectSeq(Val(job).skills, Has)
         /\ r.missing_skills = SelectSeq(Val(job).skills, Lacks)
         /\ \A skill \in Range(user_profile.skills) \ Range(Val(job).skills) :
               skill \notin Range(r.matched_skills) \cup Range(r.missing_skills)

\* the user writes "P", the job lists "p" and "q": "p" is matched in the
\* job's spelling and "q" is missing
C24_Witness ==
    /\ ~IsNone(skills_result)
    /\ Val(job).skills = << <<"p">>, <<"q">> >>
    /\ <<"P">> \in Range(user_profile.skills)
    /\ <<"p">> \notin Range(user_profile.skills)
    /\ Val(skills_result).matched_skills = << <<"p">> >>
    /\ Val(skills_result).missing_skills = << <<"q">> >>

\* the blended score of the finished call, before any rounding
BlendedScore ==
    OverallScore(Val(title_score), Val(skills_result).score, Val(experience_score),
                 user_embedding, job_embedding)

\* the number of sentences of the explanation of the finished call
SentenceCount ==
    LET e == result[1].explanation
        embedding_available == ~IsNone(user_embedding) /\ ~IsNone(job_embedding)
    IN 2 + (IF e.matched_skills # <<>> THEN 1 ELSE 0)
         + (IF e.missing_skills # <<>> THEN 1 ELSE 0)
         + (IF ~embedding_available \/ e.embedding_score >= 7000 THEN 1 ELSE 0)

\* C25: the quality label depends on the overall score only: Excellent from
\* 80, Good from 60 to below 80, Fair from 40 to below 60, Limited below 40;
\* the explanation text begins with the label and its sentences are joined
\* by single spaces.
C25_QualityLabel ==
    pc = "match_done" =>
      LET text == result[1].explanation.explanation
          score == BlendedScore
          spaces == { i \in DOMAIN text : text[i] = " " }
      IN /\ text[1] = "Excellent" <=> RatLeq(RatInt(80), score)
         /\ text[1] = "Good" <=> RatLeq(RatInt(60), score) /\ RatLt(score, RatInt(80))
         /\ text[1] = "Fair" <=> RatLeq(RatInt(40), score) /\ RatLt(score, RatInt(60))
         /\ text[1] = "Limited" <=> RatLt(score, RatInt(40))
         /\ text[2] = " match ("
         /\ Cardinality(spaces) = SentenceCount - 1
         /\ \A i \in spaces : /\ 1 < i /\ i < Len(text)
                               /\ text[i - 1] # " " /\ text[i + 1] # " "

\* a score of exactly 40 is labelled Fair; the explanation has four
\* sentences
C25_Witness ==
    /\ pc = "match_done"
    /\ BlendedScore = RatInt(40)
    /\ result[1].explanation.explanation[1] = "Fair"
    /\ SentenceCount = 4

UnavailableNote ==
    "Deep AI Match (Embeddings) currently unavailable, falling back to basic matching."

StrongRemark ==
    "Strong semantic match between your profile and job description."

\* C26: the explanation holds the note that embedding matching is
\* unavailable exactly when the embedding was unavailable for the job, and
\* the strong-semantic-match remark exactly when it was available with an
\* embedding score of at least 70; the two never appear together and
\* neither appears when the embedding was available with a lower score.
C26_SemanticNotes ==
    pc = "match_done" =>
      LET text == Range(result[1].explanation.explanation)
          embedding_available == ~IsNone(user_embedding) /\ ~IsNone(job_embedding)
          strong == /\ embedding_available
                    /\ RatLeq(RatInt(70),
                              CalculateEmbeddingSimilarity(Val(user_embedding),
                                                           Val(job_embedding)))
      IN /\ UnavailableNote \in text <=> ~embedding_available
         /\ StrongRemark \in text <=> strong
         /\ ~(UnavailableNote \in text /\ StrongRemark \in text)
         /\ (embedding_available /\ ~strong) =>
               (UnavailableNote \notin text /\ StrongRemark \notin text)

\* orthogonal vectors score 50: the embedding was available and the
\* explanation carries neither sentence
C26_Witness ==
    /\ pc = "match_done"
    /\ ~IsNone(user_embedding)
    /\ ~IsNone(job_embedding)
    /\ result[1].explanation.embedding_score = 5000
    /\ UnavailableNote \notin Range(result[1].explanation.explanation)
    /\ StrongRemark \notin Range(result[1].explanation.explanation)

\* C27: a rank_jobs call ends with exactly one JobMatch for each job that
\* survives the filters: no surviving job is dropped or duplicated, no
\* filtered-out job appears, and each JobMatch carries its input listing
\* unchanged.
C27_OnePerSurvivor ==
    pc \in {"done", "raised"} =>
      LET survivors == IF jobs = <<>> THEN <<>> ELSE ApplyFilters(jobs, filters)
      IN /\ Len(result) = Len(survivors)
         /\ \A k \in DOMAIN survivors :
               Cardinality({ i \in DOMAIN result : result[i].job = survivors[k] }) = 1
         /\ \A i \in DOMAIN result : result[i].job \in Range(survivors)

\* C28: in every JobMatch match_score equals explanation.overall_score, both
\* being the blended score rounded to 2 decimals (the nearest hundredth, a
\* tie going to the even one).
C28_ScoreAgrees ==
    pc = "match_done" =>
      LET m == result[1]
          x == BlendedScore
          off == Abs(100 * x[1] - m.match_score * x[2])
      IN /\ m.match_score = m.explanation.overall_score
         /\ 2 * off <= x[2]
         /\ 2 * off = x[2] => m.match_score % 2 = 0

\* a blended score with more than two decimals
C28_Witness ==
    /\ pc = "match_done"
    /\ (100 * BlendedScore[1]) % BlendedScore[2] # 0
    /\ result[1].match_score = result[1].explanation.overall_score
    /\ result[1].match_score # 100 * Format0f(BlendedScore)

\* the step ends a generate_embedding call with the unavailable signal
FailedStep(i) ==
    /\ tasks[i].pc = "awaiting"
    /\ tasks'[i].pc = "done"
    /\ IsNone(tasks'[i].ret)

\* the model failed for the text of task i at some earlier time
FailedBefore(i) ==
    \E k \in DOMAIN embed_log :
       /\ embed_log[k].op = "embed_content"
       /\ embed_log[k].text = Some(tasks[i].text)
       /\ embed_log[k].kind # "ok"

\* every cache entry is a vector that a successful model call returned for
\* exactly that text
CacheFromModel ==
    \A t \in DOMAIN cache :
       /\ cache[t] \in EmbedVecs
       /\ \E k \in DOMAIN embed_log :
             /\ embed_log[k].op = "embed_content"
             /\ embed_log[k].kind = "ok"
             /\ embed_log[k].text = Some(t)
             /\ embed_log[k].embedding = Some(cache[t])

\* C29: the unavailable signal is never cached: a generate_embedding call
\* that ends in unavailability leaves the cache unchanged, every cache
\* entry is a vector returned by a successful model call for exactly that
\* text, and a call for a text that failed before and is not cached calls
\* the model again.
C29_FailureNotCached ==
    [][/\ \A i \in DOMAIN tasks : FailedStep(i) => cache' = cache
       /\ CacheFromModel'
       /\ \A i \in DOMAIN tasks :
             (/\ tasks[i].pc = "start" /\ tasks'[i].pc # "start"
              /\ FailedBefore(i) /\ tasks[i].text \notin DOMAIN cache) =>
                 /\ tasks'[i].pc = "awaiting"
                 /\ ModelCalls' = ModelCalls + 1]_vars

\* without a clear_cache, the model failed for a text, the call returned the
\* unavailable signal, and a later call for the same text got a vector from
\* the model, which is now cached
C29_Witness ==
    /\ \A k \in DOMAIN embed_log : embed_log[k].op = "embed_content"
    /\ \E k1, k2 \in DOMAIN embed_log :
          /\ k1 < k2
          /\ embed_log[k1].kind # "ok"
          /\ embed_log[k2].kind = "ok"
          /\ embed_log[k2].text = embed_log[k1].text
          /\ Val(embed_log[k2].text) \in DOMAIN cache
          /\ cache[Val(embed_log[k2].text)] = Val(embed_log[k2].embedding)
    /\ \E i, k \in DOMAIN tasks :
          /\ tasks[i].pc = "done" /\ IsNone(tasks[i].ret)
          /\ tasks[k].pc = "done" /\ tasks[k].ret \in { Some(v) : v \in EmbedVecs }
          /\ tasks[i].text = tasks[k].text

\* C30: the quality label of the lead sentence agrees with the whole
\* percentage printed next to it: Excellent exactly when the printed
\* percentage is at least 80, Good when it is 60 to 79, Fair when it is 40
\* to 59, Limited when it is below 40.
C30_LabelMatchesPercent ==
    pc = "match_done" =>
      LET text == result[1].explanation.explanation
          printed == CHOOSE n \in 0..100 : ToString(n) = text[3]
      IN /\ text[1] = "Excellent" <=> printed >= 80
         /\ text[1] = "Good" <=> (60 <= printed /\ printed <= 79)
         /\ text[1] = "Fair" <=> (40 <= printed /\ printed <= 59)
         /\ text[1] = "Limited" <=> printed < 40

====
